---- MODULE Spec2Model ----
(***************************************************************************)
(* The donation contract (contract-ts/src/contract.ts, class               *)
(* DonationContract, lines 13-212) as a state machine: one action per      *)
(* exported call (init, donate, change_beneficiary, reset_donations), the  *)
(* view methods as operators over the contract state.                      *)
(***************************************************************************)
EXTENDS Integers, Sequences, FiniteSets, TLC

\* ------------------------------------------------------------------ bounds

\* Largest deposit a call attaches.
MaxDeposit == 4

\* Largest cumulative amount a ledger entry is let grow to (caps the state space).
MaxCumulative == 7

\* Largest from_index and limit a get_donations call is made with.
MaxIndex == 4

\* Largest number of donors in the ledgers the ranking is computed for.
RankMaxDonors == 6

\* ------------------------------------------------------- program constants

\* STORAGE_COST, imported from ./model; a small stand-in for its value.
STORAGE_COST == 2

\* near.currentAccountId(): the account the contract is deployed on.
ContractAccount == "c"

\* The accounts that call the contract (near.predecessorAccountId()).
Accounts == {"c", "a1", "a2"}

\* Argument triples (beneficiary, beneficiaryName, description) a caller passes
\* to init and change_beneficiary; no value occurs in two positions.
BeneficiaryArgs == {<<"b1", "B1", "d1">>, <<"b2", "B2", "d2">>}

Deposits == 0..MaxDeposit

\* What the host object `near` yields for the properties `sender` and
\* `contractName`.  The source reads them but nothing in it defines them (the
\* caller is obtained through near.predecessorAccountId()), so each is absent
\* or an account; every combination is explored.
NearSender == {"undefined"} \cup Accounts

NearContractName == {"undefined", ContractAccount}

\* ------------------------------------------------------------------- state

VARIABLES
    initialized,      \* the contract state exists (requireInit / @initialize)
    beneficiary,      \* DonationContract.beneficiary
    beneficiaryName,  \* DonationContract.beneficiaryName
    description,      \* DonationContract.description
    donations,        \* DonationContract.donations, an UnorderedMap<bigint>
    last,             \* the most recent call: its inputs, outcome and promise
    counter,          \* history: deposits of successful donates since the last reset
    hist,             \* history: per donor and in total, since the last reset
    pending,          \* the host's queue of transfers requested and not yet settled
    fe                \* the front-end's latestDonations() in progress

vars == <<initialized, beneficiary, beneficiaryName, description, donations, last, counter,
          hist, pending, fe>>

\* ------------------------------------------------------------ UnorderedMap

\* new UnorderedMap("map-uid-1"): keys in insertion order, a value per key.
UnorderedMap_new == [keys |-> <<>>, values |-> <<>>]

Range(s) == {s[i] : i \in 1..Len(s)}

IndexOf(s, k) == CHOOSE i \in 1..Len(s) : s[i] = k

UnorderedMap_has(m, k) == k \in Range(m.keys)

\* donations.get(key, {defaultValue})
UnorderedMap_get(m, k, defaultValue) ==
    IF UnorderedMap_has(m, k) THEN m.values[IndexOf(m.keys, k)] ELSE defaultValue

\* donations.set(key, value): overwrite in place, or append a new key.
UnorderedMap_set(m, k, v) ==
    IF UnorderedMap_has(m, k)
    THEN [m EXCEPT !.values[IndexOf(m.keys, k)] = v]
    ELSE [keys |-> Append(m.keys, k), values |-> Append(m.values, v)]

\* Variant: clear forgets the last key only.
UnorderedMap_clear_last(m) ==
    IF m.keys = <<>> THEN m
    ELSE [keys |-> SubSeq(m.keys, 1, Len(m.keys) - 1),
          values |-> SubSeq(m.values, 1, Len(m.values) - 1)]

\* donations.clear()
UnorderedMap_clear(m) == [keys |-> <<>>, values |-> <<>>]

\* donations.length
UnorderedMap_length(m) == Len(m.keys)

Min(a, b) == IF a <= b THEN a ELSE b

Max(a, b) == IF a >= b THEN a ELSE b

\* donations.keys({start, limit}): up to limit keys, in insertion order, from
\* position start (0-based) on.
UnorderedMap_keys(m, start, limit) ==
    SubSeq(m.keys, start + 1, Min(start + limit, Len(m.keys)))

\* ---------------------------------------------------------------- bigint

Digit == <<"0", "1", "2", "3", "4", "5", "6", "7", "8", "9">>

RECURSIVE toString(_)
\* BigInt.prototype.toString(): the decimal digits, most significant first.
toString(n) ==
    IF n < 10 THEN Digit[n + 1] ELSE toString(n \div 10) \o Digit[(n % 10) + 1]

RECURSIVE SumSeq(_)
SumSeq(s) == IF s = <<>> THEN 0 ELSE Head(s) + SumSeq(Tail(s))

\* ----------------------------------------------------------- view methods

number_of_donors == UnorderedMap_length(donations)

get_beneficiary == beneficiary

beneficiary_name == beneficiaryName

get_description == description

get_donation_for_account(account_id) ==
    LET total_amount == UnorderedMap_get(donations, account_id, 0)
    IN  [account_id |-> account_id,
         total_amount |-> IF total_amount # 0 THEN toString(total_amount) ELSE "0"]

\* Variant: limit is taken as the position to stop at.
get_donations_limitAsEnd(from_index, limit) ==
    LET startIndex == Min(from_index, UnorderedMap_length(donations))
        ks == SubSeq(donations.keys, startIndex + 1,
                     Min(limit, UnorderedMap_length(donations)))
    IN  [i \in 1..Len(ks) |-> get_donation_for_account(ks[i])]

get_donations(from_index, limit) ==
    LET startIndex == Min(from_index, UnorderedMap_length(donations))
        ks == UnorderedMap_keys(donations, startIndex, limit)
    IN  [i \in 1..Len(ks) |-> get_donation_for_account(ks[i])]

\* The earlier draft's get_donations: from_index is passed on as it is.
get_donations_draft(from_index, limit) ==
    LET ks == UnorderedMap_keys(donations, from_index, limit)
    IN  [i \in 1..Len(ks) |-> get_donation_for_account(ks[i])]

\* total starts at 0 and every value of the map is added to it.
get_total_donated == toString(SumSeq(donations.values))

RECURSIVE SumByKeys(_, _)
SumByKeys(m, ks) ==
    IF ks = <<>> THEN 0 ELSE UnorderedMap_get(m, Head(ks), 0) + SumByKeys(m, Tail(ks))

\* The earlier draft's get_total_donated: for each key of keys({start: 0,
\* limit: length}), total += donations.get(key).
get_total_donated_draft == toString(SumByKeys(donations, donations.keys))

\* ------------------------------------------- amounts beyond 31 bits, ranking

\* A bigint too wide for one integer of the checker is held as three limbs
\* <<l2, l1, l0>>, most significant first: l2 * 2^54 + l1 * 2^27 + l0, each
\* limb below 2^27 and l2 below 2^26.
LimbBase == 134217728

\* Number: an IEEE-754 double, 53 significant bits.
MantissaBits == 53

\* get_top_five_donors returns at most this many donors.
TopCount == 5

WideZero == <<0, 0, 0>>

\* 10^24 yoctoNEAR, one NEAR.
OneNear == <<55511151, 31038900, 16777216>>

\* -1, 0 or 1 as a is below, equal to or above b.
WideCompare(a, b) ==
    IF a = b THEN 0
    ELSE IF \/ a[1] < b[1]
            \/ a[1] = b[1] /\ a[2] < b[2]
            \/ a[1] = b[1] /\ a[2] = b[2] /\ a[3] < b[3]
         THEN -1 ELSE 1

\* Quotient and remainder of a by a divisor of at most 10, limb by limb.
WideDivMod(a, n) ==
    LET t1 == (a[1] % n) * LimbBase + a[2]
        t0 == (t1 % n) * LimbBase + a[3]
    IN  [q |-> <<a[1] \div n, t1 \div n, t0 \div n>>, r |-> t0 % n]

RECURSIVE WideToString(_)
\* bigint.toString() of a wide amount: its decimal digits.
WideToString(a) ==
    IF a[1] = 0 /\ a[2] = 0 /\ a[3] < 10 THEN Digit[a[3] + 1]
    ELSE WideToString(WideDivMod(a, 10).q) \o Digit[WideDivMod(a, 10).r + 1]

RECURSIVE BitLength(_)
BitLength(n) == IF n = 0 THEN 0 ELSE 1 + BitLength(n \div 2)

WideBitLength(a) ==
    IF a[1] > 0 THEN 54 + BitLength(a[1])
    ELSE IF a[2] > 0 THEN 27 + BitLength(a[2])
    ELSE BitLength(a[3])

\* a + carry * 2^27 + l0, the limbs brought back below 2^27.
WideNormal(l2, l1, l0) ==
    LET c0 == l0 \div LimbBase
        m1 == l1 + c0
    IN  <<l2 + (m1 \div LimbBase), m1 % LimbBase, l0 % LimbBase>>

\* The double nearest to the integer a (ties to the even significand): a
\* itself when it has at most 53 bits, else a with the bits below the 53
\* leading ones rounded away.
RoundToDouble(a) ==
    LET drop == WideBitLength(a) - MantissaBits
    IN  IF drop <= 0 THEN a
        ELSE LET unit == 2 ^ drop
                 rem == a[3] % unit
                 odd == IF unit = LimbBase THEN a[2] % 2 = 1
                        ELSE (a[3] \div unit) % 2 = 1
                 up == rem * 2 > unit \/ (rem * 2 = unit /\ odd)
             IN  WideNormal(a[1], a[2], (a[3] - rem) + (IF up THEN unit ELSE 0))

\* get_donation_for_account on a ledger of wide amounts.
get_donation_for_account_wide(account_id) ==
    LET total_amount == UnorderedMap_get(donations, account_id, WideZero)
    IN  [account_id |-> account_id,
         total_amount |-> IF total_amount # WideZero THEN WideToString(total_amount)
                          ELSE "0"]

\* Number.parseFloat(total_amount): the decimal string is that of one amount
\* of the ledger, and the number is the double nearest to that amount.
parseFloat(total_amount) ==
    IF total_amount = "0" THEN WideZero
    ELSE RoundToDouble(CHOOSE a \in Range(donations.values) :
                          WideToString(a) = total_amount)

\* The comparator of ret.sort: parseFloat(b) - parseFloat(a), by its sign.
compareDonations(a, b) ==
    WideCompare(parseFloat(b.total_amount), parseFloat(a.total_amount))

RECURSIVE InsertStable(_, _)
\* x put after every element the comparator does not order behind it.
InsertStable(sorted, x) ==
    IF sorted = <<>> THEN <<x>>
    ELSE IF compareDonations(Head(sorted), x) <= 0
    THEN <<Head(sorted)>> \o InsertStable(Tail(sorted), x)
    ELSE <<x>> \o sorted

RECURSIVE ArraySort(_)
\* Array.prototype.sort with compareDonations: a stable sort.
ArraySort(ret) ==
    IF ret = <<>> THEN <<>>
    ELSE InsertStable(ArraySort(SubSeq(ret, 1, Len(ret) - 1)), ret[Len(ret)])

get_top_five_donors ==
    LET ks == UnorderedMap_keys(donations, 0, UnorderedMap_length(donations))
        ret == [i \in 1..Len(ks) |-> get_donation_for_account_wide(ks[i])]
        sorted == ArraySort(ret)
    IN  IF Len(sorted) > TopCount THEN SubSeq(sorted, 1, TopCount) ELSE sorted

\* --------------------------------------------------------------- outcomes

NoPromise == <<>>

NoArgs == <<>>

\* The record kept of a call.  prior is the caller's recorded amount when the
\* call began, promises the transfers it requested, cleared the keys it
\* removed from the map; recordedBefore marks a donate that directly follows a
\* successful reset_donations which removed the donor's entry; replaced is the
\* beneficiary a successful change_beneficiary put an end to, and afterChange
\* marks a donate that directly follows a change to another beneficiary.
Outcome(op, caller, deposit, args, ok, err, ret, prior, promises, cleared) ==
    [op |-> op, caller |-> caller, deposit |-> deposit, args |-> args, ok |-> ok,
     err |-> err, ret |-> ret, prior |-> prior, promises |-> promises,
     cleared |-> cleared,
     recordedBefore |-> (op = "donate" /\ last.op = "reset_donations" /\ last.ok
                         /\ caller \in last.cleared),
     replaced |-> IF op = "change_beneficiary" /\ ok THEN beneficiary ELSE "",
     afterChange |-> (op = "donate" /\ last.op = "change_beneficiary" /\ last.ok
                      /\ last.replaced # beneficiary)]

\* A call that throws: the host discards the call's writes and promises.
Panic(op, caller, deposit, args, err) ==
    /\ last' = Outcome(op, caller, deposit, args, FALSE, err, "", 0, NoPromise, {})
    /\ UNCHANGED <<initialized, beneficiary, beneficiaryName, description, donations, counter>>

Returned(op, caller, deposit, args, ret, prior, promises, cleared) ==
    last' = Outcome(op, caller, deposit, args, TRUE, "", ret, prior, promises, cleared)

\* near.promiseBatchCreate(account) followed by
\* near.promiseBatchActionTransfer(promise, amount): one transfer is requested.
promiseTransfer(to, amount) == <<[to |-> to, amount |-> amount]>>

\* Variant: the decorator lets every caller through.
privateFunction_anyone(caller) == TRUE

\* @call / @initialize ({ privateFunction: true })
privateFunction(caller) == caller = ContractAccount

\* ------------------------------------------------------------------ calls

\* Variant: requireInit is off.
requireInit_off == TRUE

\* @NearBindgen({ requireInit: true }): no method but init runs before init.
requireInit == initialized

\* Variant: init may run again.
initializeOnce_again == TRUE

\* @initialize: init runs only while the contract has no state yet.
initializeOnce == ~initialized

init(caller, b, n, d) ==
    IF ~initializeOnce THEN Panic("init", caller, 0, <<b, n, d>>, "AlreadyInitialized")
    ELSE IF ~privateFunction(caller) THEN Panic("init", caller, 0, <<b, n, d>>, "Unauthorized")
    ELSE /\ initialized' = TRUE
         /\ beneficiary' = b
         /\ beneficiaryName' = n
         /\ description' = d
         /\ Returned("init", caller, 0, <<b, n, d>>, "", 0, NoPromise, {})
         /\ UNCHANGED <<donations, counter>>

\* Variant: the storage check accepts a deposit equal to STORAGE_COST.
storageAssert_atLeast(donatedSoFar, donationAmount) ==
    donatedSoFar = 0 => donationAmount >= STORAGE_COST

\* if (donatedSoFar == 0) assert(donationAmount > STORAGE_COST, ...)
storageAssert(donatedSoFar, donationAmount) ==
    donatedSoFar = 0 => donationAmount > STORAGE_COST

\* Variant: the storage cost is deducted from every donation that can bear it.
toTransfer_alwaysDeduct(donatedSoFar, donationAmount) ==
    IF donationAmount > STORAGE_COST THEN donationAmount - STORAGE_COST ELSE donationAmount

\* let toTransfer = donationAmount; if (donatedSoFar == 0) toTransfer -= STORAGE_COST
toTransfer(donatedSoFar, donationAmount) ==
    IF donatedSoFar = 0 THEN donationAmount - STORAGE_COST ELSE donationAmount

\* Variant: the amount recorded is the amount forwarded to the beneficiary.
donatedSoFarAfter_transferred(donatedSoFar, donationAmount) ==
    donatedSoFar + toTransfer(donatedSoFar, donationAmount)

\* donatedSoFar += donationAmount
donatedSoFarAfter(donatedSoFar, donationAmount) == donatedSoFar + donationAmount

\* Variant: the amount is written before the storage check, and the failed
\* check does not undo the write.
donate_writeBeforeAssert(donor, donationAmount) ==
    LET donatedSoFar == UnorderedMap_get(donations, donor, 0)
        total == donatedSoFarAfter(donatedSoFar, donationAmount)
    IN  IF ~requireInit THEN Panic("donate", donor, donationAmount, NoArgs, "NotInitialized")
        ELSE IF ~storageAssert(donatedSoFar, donationAmount)
        THEN /\ donations' = UnorderedMap_set(donations, donor, total)
             /\ last' = Outcome("donate", donor, donationAmount, NoArgs, FALSE,
                                "InsufficientForStorage", "", 0, NoPromise, {})
             /\ UNCHANGED <<initialized, beneficiary, beneficiaryName, description, counter>>
        ELSE /\ donations' = UnorderedMap_set(donations, donor, total)
             /\ counter' = counter + donationAmount
             /\ Returned("donate", donor, donationAmount, NoArgs, toString(total), donatedSoFar,
                         promiseTransfer(beneficiary,
                                         toTransfer(donatedSoFar, donationAmount)), {})
             /\ UNCHANGED <<initialized, beneficiary, beneficiaryName, description>>

\* Variant: the call returns the amount attached instead of the donor's total.
donate_returnsDeposit(donor, donationAmount) ==
    LET donatedSoFar == UnorderedMap_get(donations, donor, 0)
        total == donatedSoFarAfter(donatedSoFar, donationAmount)
    IN  IF ~requireInit THEN Panic("donate", donor, donationAmount, NoArgs, "NotInitialized")
        ELSE IF ~storageAssert(donatedSoFar, donationAmount)
        THEN Panic("donate", donor, donationAmount, NoArgs, "InsufficientForStorage")
        ELSE /\ donations' = UnorderedMap_set(donations, donor, total)
             /\ counter' = counter + donationAmount
             /\ Returned("donate", donor, donationAmount, NoArgs, toString(donationAmount),
                         donatedSoFar,
                         promiseTransfer(beneficiary,
                                         toTransfer(donatedSoFar, donationAmount)), {})
             /\ UNCHANGED <<initialized, beneficiary, beneficiaryName, description>>

\* Variant: the promise is addressed to the caller instead of the beneficiary.
donate_toCaller(donor, donationAmount) ==
    LET donatedSoFar == UnorderedMap_get(donations, donor, 0)
        total == donatedSoFarAfter(donatedSoFar, donationAmount)
    IN  IF ~requireInit THEN Panic("donate", donor, donationAmount, NoArgs, "NotInitialized")
        ELSE IF ~storageAssert(donatedSoFar, donationAmount)
        THEN Panic("donate", donor, donationAmount, NoArgs, "InsufficientForStorage")
        ELSE /\ donations' = UnorderedMap_set(donations, donor, total)
             /\ counter' = counter + donationAmount
             /\ Returned("donate", donor, donationAmount, NoArgs, toString(total), donatedSoFar,
                         promiseTransfer(donor,
                                         toTransfer(donatedSoFar, donationAmount)), {})
             /\ UNCHANGED <<initialized, beneficiary, beneficiaryName, description>>

donate(donor, donationAmount) ==
    LET donatedSoFar == UnorderedMap_get(donations, donor, 0)
        total == donatedSoFarAfter(donatedSoFar, donationAmount)
    IN  IF ~requireInit THEN Panic("donate", donor, donationAmount, NoArgs, "NotInitialized")
        ELSE IF ~storageAssert(donatedSoFar, donationAmount)
        THEN Panic("donate", donor, donationAmount, NoArgs, "InsufficientForStorage")
        ELSE /\ donations' = UnorderedMap_set(donations, donor, total)
             /\ counter' = counter + donationAmount
             /\ Returned("donate", donor, donationAmount, NoArgs, toString(total), donatedSoFar,
                         promiseTransfer(beneficiary,
                                         toTransfer(donatedSoFar, donationAmount)), {})
             /\ UNCHANGED <<initialized, beneficiary, beneficiaryName, description>>

\* assert(near.sender == near.contractName, ...)
ownerAssert(sender, contractName) == sender = contractName

\* Variant: changing the beneficiary also starts a new ledger.
change_beneficiary_resets(caller, sender, contractName, b, n, d) ==
    IF ~requireInit THEN Panic("change_beneficiary", caller, 0, <<b, n, d>>, "NotInitialized")
    ELSE IF ~privateFunction(caller)
    THEN Panic("change_beneficiary", caller, 0, <<b, n, d>>, "Unauthorized")
    ELSE IF ~ownerAssert(sender, contractName)
    THEN Panic("change_beneficiary", caller, 0, <<b, n, d>>, "Unauthorized")
    ELSE /\ beneficiary' = b
         /\ beneficiaryName' = n
         /\ description' = d
         /\ donations' = UnorderedMap_clear(donations)
         /\ counter' = 0
         /\ Returned("change_beneficiary", caller, 0, <<b, n, d>>, "", 0, NoPromise, {})
         /\ UNCHANGED initialized

change_beneficiary(caller, sender, contractName, b, n, d) ==
    IF ~requireInit THEN Panic("change_beneficiary", caller, 0, <<b, n, d>>, "NotInitialized")
    ELSE IF ~privateFunction(caller) THEN Panic("change_beneficiary", caller, 0, <<b, n, d>>, "Unauthorized")
    ELSE IF ~ownerAssert(sender, contractName)
    THEN Panic("change_beneficiary", caller, 0, <<b, n, d>>, "Unauthorized")
    ELSE /\ beneficiary' = b
         /\ beneficiaryName' = n
         /\ description' = d
         /\ Returned("change_beneficiary", caller, 0, <<b, n, d>>, "", 0, NoPromise, {})
         /\ UNCHANGED <<initialized, donations, counter>>

reset_donations(caller, sender, contractName) ==
    IF ~requireInit THEN Panic("reset_donations", caller, 0, NoArgs, "NotInitialized")
    ELSE IF ~privateFunction(caller) THEN Panic("reset_donations", caller, 0, NoArgs, "Unauthorized")
    ELSE IF ~ownerAssert(sender, contractName)
    THEN Panic("reset_donations", caller, 0, NoArgs, "Unauthorized")
    ELSE /\ donations' = UnorderedMap_clear(donations)
         /\ counter' = 0
         /\ Returned("reset_donations", caller, 0, NoArgs, "", 0, NoPromise,
                    Range(donations.keys))
         /\ UNCHANGED <<initialized, beneficiary, beneficiaryName, description>>

\* The methods the class exports: those under @initialize, @call and @view.
ExportedMethods ==
    {"init", "donate", "change_beneficiary", "reset_donations", "get_beneficiary",
     "number_of_donors", "beneficiary_name", "get_description", "get_donations",
     "get_donation_for_account", "get_total_donated", "get_top_five_donors"}

\* The methods callers ask for that the class may or may not export.
MethodsAsked == {"get_donation_statistics", "get_total_donated"}

\* A call of a method the class does not export: the host finds no such
\* function in the contract and the call fails, whatever the state.
methodNotFound(method, caller) ==
    /\ method \notin ExportedMethods
    /\ Panic(method, caller, 0, NoArgs, "MethodNotFound")

\* ---------------------------------------------------------------- history

RECURSIVE SumAmounts(_)
SumAmounts(ps) == IF ps = <<>> THEN 0 ELSE Head(ps).amount + SumAmounts(Tail(ps))

\* Nothing donated yet: what each account attached in successful donates, what
\* was requested for transfer, and who donated, all since the last reset.
HistZero ==
    [attached |-> [a \in Accounts |-> 0], transferred |-> 0, donors |-> {}]

\* The history follows the outcome of the call just made.
HistNext ==
    hist' = IF last'.op = "donate" /\ last'.ok
            THEN [attached |-> [hist.attached EXCEPT ![last'.caller] = @ + last'.deposit],
                  transferred |-> hist.transferred + SumAmounts(last'.promises),
                  donors |-> hist.donors \cup {last'.caller}]
            ELSE IF last'.op = "reset_donations" /\ last'.ok THEN HistZero
            ELSE hist

\* The front-end is idle: latestDonations is not running, the form was not
\* submitted and its fieldset is enabled.
FeIdle ==
    [pc |-> "idle", number_of_donors |-> 0, donations |-> <<>>,
     onsubmit |-> "idle", fieldset |-> [disabled |-> FALSE], deposit |-> 0]

\* A call to the contract, with the history kept; in this specification the
\* settlement of transfers and the front-end are not followed.
Step(call) == call /\ HistNext /\ UNCHANGED <<pending, fe>>

\* ---------------------------------------------------------- specification

\* The state of a deployed contract before init: the field initialisers.
Init ==
    /\ initialized = FALSE
    /\ beneficiary = ""
    /\ beneficiaryName = ""
    /\ description = ""
    /\ donations = UnorderedMap_new
    /\ counter = 0
    /\ hist = HistZero
    /\ pending = <<>>
    /\ fe = FeIdle
    /\ last = [op |-> "deploy", caller |-> ContractAccount, deposit |-> 0,
               args |-> NoArgs, ok |-> TRUE, err |-> "", ret |-> "", prior |-> 0,
               promises |-> NoPromise, cleared |-> {}, recordedBefore |-> FALSE,
               replaced |-> "", afterChange |-> FALSE]

Call_init ==
    \E caller \in Accounts, args \in BeneficiaryArgs :
        init(caller, args[1], args[2], args[3])

Call_donate ==
    \E donor \in Accounts, donationAmount \in Deposits :
        /\ UnorderedMap_get(donations, donor, 0) + donationAmount <= MaxCumulative
        /\ donate(donor, donationAmount)

Call_change_beneficiary ==
    \E caller \in Accounts, sender \in NearSender, contractName \in NearContractName,
       args \in BeneficiaryArgs :
        change_beneficiary(caller, sender, contractName, args[1], args[2], args[3])

Call_reset_donations ==
    \E caller \in Accounts, sender \in NearSender, contractName \in NearContractName :
        reset_donations(caller, sender, contractName)

Call_methodNotFound ==
    \E method \in MethodsAsked : methodNotFound(method, "a1")

Next ==
    \/ Step(Call_init)
    \/ Step(Call_donate)
    \/ Step(Call_change_beneficiary)
    \/ Step(Call_reset_donations)
    \/ Step(Call_methodNotFound)

Spec == Init /\ [][Next]_vars

\* ------------------------------------------------- ranking specification

\* The donors of the ledgers ranked, in the order they first donated.
RankAccounts == <<"d1", "d2", "d3", "d4", "d5", "d6", "d7", "d8">>

\* Recorded amounts: one NEAR, one yoctoNEAR more, and 2^27 yoctoNEAR more.
RankAmounts ==
    {OneNear, WideNormal(OneNear[1], OneNear[2], OneNear[3] + 1),
     WideNormal(OneNear[1], OneNear[2] + 1, OneNear[3])}

\* An initialized contract whose ledger holds up to RankMaxDonors donors.
InitRank ==
    /\ initialized = TRUE
    /\ beneficiary = "b1"
    /\ beneficiaryName = "B1"
    /\ description = "d1"
    /\ \E n \in 0..RankMaxDonors :
          \E amounts \in [1..n -> RankAmounts] :
              donations = [keys |-> SubSeq(RankAccounts, 1, n), values |-> amounts]
    /\ counter = 0
    /\ hist = HistZero
    /\ pending = <<>>
    /\ fe = FeIdle
    /\ last = [op |-> "init", caller |-> ContractAccount, deposit |-> 0,
               args |-> <<"b1", "B1", "d1">>, ok |-> TRUE, err |-> "", ret |-> "",
               prior |-> 0, promises |-> NoPromise, cleared |-> {},
               recordedBefore |-> FALSE, replaced |-> "", afterChange |-> FALSE]

\* A view call of get_top_five_donors: the state is read, not written.
View_get_top_five_donors ==
    /\ requireInit
    /\ \E caller \in {"a1"} :
          Returned("get_top_five_donors", caller, 0, NoArgs, get_top_five_donors, 0,
                   NoPromise, {})
    /\ UNCHANGED <<initialized, beneficiary, beneficiaryName, description, donations,
                   counter, hist, pending, fe>>

NextRank == View_get_top_five_donors

SpecRank == InitRank /\ [][NextRank]_vars

\* ---------------------------------------------- settlement specification

\* Transfers requested and not yet settled by the host, at most.
MaxPending == 2

\* The accounts that donate and the amounts they attach while settlements
\* are followed: a first donation, a repeat one.
SettleDonors == {"a1", "a2"}

SettleDeposits == {1, STORAGE_COST + 1}

\* The transfers a call requested, each with the account whose call it was.
Requested(outcome) ==
    [i \in 1..Len(outcome.promises) |->
        [to |-> outcome.promises[i].to, amount |-> outcome.promises[i].amount,
         donor |-> outcome.caller]]

RemoveAt(seq, i) == SubSeq(seq, 1, i - 1) \o SubSeq(seq, i + 1, Len(seq))

\* Variant: a callback takes a failed transfer's amount back out of the
\* donor's entry.
onSettled_rollback(transfer, ok) ==
    /\ donations' =
          IF ~ok /\ UnorderedMap_has(donations, transfer.donor)
          THEN UnorderedMap_set(donations, transfer.donor,
                   Max(0, UnorderedMap_get(donations, transfer.donor, 0) - transfer.amount))
          ELSE donations
    /\ UNCHANGED <<initialized, beneficiary, beneficiaryName, description, counter>>

\* What the contract does when the host reports the outcome of a transfer:
\* donate attaches no callback to the promise, so no code of the contract
\* runs and its state stays as it is.
onSettled(transfer, ok) ==
    UNCHANGED <<initialized, beneficiary, beneficiaryName, description, donations, counter>>

\* The host settles the i-th transfer in flight, with success or failure.
settle(i, ok) ==
    /\ pending' = RemoveAt(pending, i)
    /\ onSettled(pending[i], ok)
    /\ last' = Outcome("settle", pending[i].donor, pending[i].amount, NoArgs, ok,
                       IF ok THEN "" ELSE "TransferFailed", "", 0, NoPromise, {})

\* A call to the contract whose transfers join those in flight: the call
\* ends without waiting for them.
StepSettle(call) ==
    /\ call
    /\ HistNext
    /\ Len(pending) + Len(last'.promises) <= MaxPending
    /\ pending' = pending \o Requested(last')
    /\ UNCHANGED fe

Settle_donate ==
    \E donor \in SettleDonors, donationAmount \in SettleDeposits :
        /\ UnorderedMap_get(donations, donor, 0) + donationAmount <= MaxCumulative
        /\ donate(donor, donationAmount)

Settle_reset_donations ==
    reset_donations(ContractAccount, ContractAccount, ContractAccount)

Settle_settle ==
    /\ \E i \in 1..Len(pending), ok \in BOOLEAN : settle(i, ok)
    /\ HistNext
    /\ UNCHANGED fe

\* An initialized contract with no donation yet.
InitSettle ==
    /\ initialized = TRUE
    /\ beneficiary = "b1"
    /\ beneficiaryName = "B1"
    /\ description = "d1"
    /\ donations = UnorderedMap_new
    /\ counter = 0
    /\ hist = HistZero
    /\ pending = <<>>
    /\ fe = FeIdle
    /\ last = [op |-> "init", caller |-> ContractAccount, deposit |-> 0,
               args |-> <<"b1", "B1", "d1">>, ok |-> TRUE, err |-> "", ret |-> "",
               prior |-> 0, promises |-> NoPromise, cleared |-> {},
               recordedBefore |-> FALSE, replaced |-> "", afterChange |-> FALSE]

NextSettle ==
    \/ StepSettle(Settle_donate)
    \/ StepSettle(Settle_reset_donations)
    \/ Settle_settle

SpecSettle == InitSettle /\ [][NextSettle]_vars

\* ----------------------------------------------- front-end specification

\* Donors recorded when the front-end starts loading, at most.
LatestMaxDonors == 12

\* The largest amount a donor of these ledgers attaches.
LatestMaxAmount == 10

\* The number of donations the page is to show.
LatestCount == 10

\* The exponent of one NEAR in yoctoNEAR.
NEAR_NOMINATION_EXP == 24

\* The i-th donor of these ledgers, in insertion order.
LatestAccount(i) == "n" \o toString(i)

LatestAmounts == {STORAGE_COST + 1, LatestMaxAmount}

\* new BN(balance, 10): the number whose decimal digits the string holds.
BN(balance) == CHOOSE n \in 0..LatestMaxAmount : toString(n) = balance

RECURSIVE padStart(_, _)
\* The decimal digits of n, padded with zeros on the left to width digits.
padStart(n, width) ==
    IF width = 0 THEN "" ELSE padStart(n \div 10, width - 1) \o Digit[(n % 10) + 1]

RECURSIVE trimTrailingZeroes(_, _)
\* The fraction n / 10^width written without its trailing zeros.
trimTrailingZeroes(n, width) ==
    IF n % 10 = 0 THEN trimTrailingZeroes(n \div 10, width - 1) ELSE padStart(n, width)

\* utils.format.formatNearAmount of an amount below one NEAR: the amount in
\* NEAR, as "0." and the fraction digits up to the last one that is not zero;
\* "0" for no amount.
formatNearAmount(total_amount) ==
    LET balanceBN == BN(total_amount)
    IN  IF balanceBN = 0 THEN "0"
        ELSE "0." \o trimTrailingZeroes(balanceBN, NEAR_NOMINATION_EXP)

Reverse(seq) == [i \in 1..Len(seq) |-> seq[Len(seq) - i + 1]]

\* latestDonations, first await: the number_of_donors view call.
latestDonations_count ==
    /\ fe.pc = "idle"
    /\ requireInit
    /\ fe' = [fe EXCEPT !.pc = "counted", !.number_of_donors = number_of_donors]
    /\ Returned("number_of_donors", "a1", 0, NoArgs, number_of_donors, 0, NoPromise, {})
    /\ UNCHANGED <<initialized, beneficiary, beneficiaryName, description, donations,
                   counter, hist, pending>>

\* latestDonations, second await and the rest: the get_donations view call
\* from min with limit number_of_donors, the amounts formatted, the array
\* reversed.
latestDonations_fetch ==
    /\ fe.pc = "counted"
    /\ requireInit
    /\ LET min == IF fe.number_of_donors > LatestCount
                  THEN fe.number_of_donors - 9 ELSE 0
           ret == get_donations(min, fe.number_of_donors)
           formatted == [i \in 1..Len(ret) |->
                            [ret[i] EXCEPT !.total_amount = formatNearAmount(@)]]
       IN  /\ fe' = [fe EXCEPT !.pc = "done", !.donations = Reverse(formatted)]
           /\ Returned("get_donations", "a1", 0, <<min, fe.number_of_donors>>, ret, 0,
                       NoPromise, {})
    /\ UNCHANGED <<initialized, beneficiary, beneficiaryName, description, donations,
                   counter, hist, pending>>

\* A donate of a new donor that the contract runs between the two view calls.
Latest_donate ==
    /\ fe.pc = "counted"
    /\ number_of_donors = fe.number_of_donors
    /\ \E donationAmount \in LatestAmounts :
          donate(LatestAccount(number_of_donors + 1), donationAmount)
    /\ UNCHANGED <<hist, pending, fe>>

\* An initialized contract whose ledger holds up to LatestMaxDonors donors,
\* the front-end about to load the latest donations.
InitLatest ==
    /\ initialized = TRUE
    /\ beneficiary = "b1"
    /\ beneficiaryName = "B1"
    /\ description = "d1"
    /\ \E n \in 0..LatestMaxDonors, amount \in LatestAmounts :
          donations = [keys |-> [i \in 1..n |-> LatestAccount(i)],
                       values |-> [i \in 1..n |-> amount]]
    /\ counter = 0
    /\ hist = HistZero
    /\ pending = <<>>
    /\ fe = FeIdle
    /\ last = [op |-> "init", caller |-> ContractAccount, deposit |-> 0,
               args |-> <<"b1", "B1", "d1">>, ok |-> TRUE, err |-> "", ret |-> "",
               prior |-> 0, promises |-> NoPromise, cleared |-> {},
               recordedBefore |-> FALSE, replaced |-> "", afterChange |-> FALSE]

NextLatest ==
    \/ latestDonations_count
    \/ Latest_donate
    \/ latestDonations_fetch

SpecLatest == InitLatest /\ [][NextLatest]_vars

\* ---------------------------------------------------- form specification

\* The account signed in to the wallet.
SignedIn == "a1"

Zeros(k) == [i \in 1..k |-> "0"]

\* The text of an amount of n yoctoNEAR (0 < n < 10) in NEAR with digits
\* fraction digits, as a sequence of characters.
NearText(n, digits) == <<"0", ".">> \o Zeros(digits - 1) \o <<Digit[n + 1]>>

\* What the user types in the donation field: no NEAR, 1 and STORAGE_COST + 1
\* yoctoNEAR, a grouped amount, and texts that are no NEAR amount.
FormValues ==
    {<<"0">>, NearText(1, NEAR_NOMINATION_EXP), NearText(STORAGE_COST + 1, NEAR_NOMINATION_EXP),
     <<"0", ",", "0", ".">> \o Zeros(NEAR_NOMINATION_EXP - 1) \o <<"1">>,
     NearText(1, NEAR_NOMINATION_EXP + 1), <<"0", ".", "0", ".", "1">>}

\* cleanupAmount: the commas are removed.
cleanupAmount(amt) == SelectSeq(amt, LAMBDA ch : ch # ",")

\* The positions of the "." in the text.
Dots(amt) == {i \in 1..Len(amt) : amt[i] = "."}

FirstDot(amt) == CHOOSE i \in Dots(amt) : \A j \in Dots(amt) : i <= j

RECURSIVE trimLeadingZeroes(_)
\* The text without its leading zeros, "0" when nothing is left.
trimLeadingZeroes(value) ==
    IF value = <<>> THEN <<"0">>
    ELSE IF Head(value) = "0" THEN trimLeadingZeroes(Tail(value))
    ELSE value

\* utils.format.parseNearAmount: the whole part followed by the fraction
\* part padded with zeros to NEAR_NOMINATION_EXP digits, leading zeros
\* trimmed; it throws on a second "." or a longer fraction part.
parseNearAmount(amount) ==
    LET amt == cleanupAmount(amount)
        wholePart == IF Dots(amt) = {} THEN amt ELSE SubSeq(amt, 1, FirstDot(amt) - 1)
        fracPart == IF Dots(amt) = {} THEN <<>>
                    ELSE SubSeq(amt, FirstDot(amt) + 1, Len(amt))
    IN  IF Cardinality(Dots(amt)) > 1 \/ Len(fracPart) > NEAR_NOMINATION_EXP
        THEN [thrown |-> TRUE, value |-> <<>>]
        ELSE [thrown |-> FALSE,
              value |-> trimLeadingZeroes(
                            wholePart \o fracPart
                                \o Zeros(NEAR_NOMINATION_EXP - Len(fracPart)))]

DigitValue(ch) == CHOOSE d \in 0..9 : Digit[d + 1] = ch

RECURSIVE BigInt(_)
\* The number a text of decimal digits stands for: near.attachedDeposit().
BigInt(value) ==
    IF value = <<>> THEN 0
    ELSE 10 * BigInt(SubSeq(value, 1, Len(value) - 1)) + DigitValue(value[Len(value)])

\* form.onsubmit up to its await: the fieldset is disabled and
\* contract.donate is called; when parseNearAmount throws, the catch block
\* alerts and throws again, and the handler ends there.
onsubmit_submit(donation) ==
    /\ fe.onsubmit \in {"idle", "returned"}
    /\ ~fe.fieldset.disabled
    /\ LET deposit == parseNearAmount(donation)
       IN  fe' = IF deposit.thrown
                 THEN [fe EXCEPT !.onsubmit = "thrown", !.fieldset.disabled = TRUE]
                 ELSE [fe EXCEPT !.onsubmit = "awaiting", !.fieldset.disabled = TRUE,
                                 !.deposit = BigInt(deposit.value)]
    /\ UNCHANGED <<initialized, beneficiary, beneficiaryName, description, donations,
                   counter, hist, pending, last>>

\* wallet.callMethod: the donate call reaches the contract; the promise
\* awaited resolves when the call succeeds and rejects when it panics.
callMethod_donate ==
    /\ fe.onsubmit = "awaiting"
    /\ UnorderedMap_get(donations, SignedIn, 0) + fe.deposit <= MaxCumulative
    /\ donate(SignedIn, fe.deposit)
    /\ HistNext
    /\ fe' = [fe EXCEPT !.onsubmit = IF last'.ok THEN "resolved" ELSE "rejected"]
    /\ UNCHANGED pending

\* wallet.callMethod: the wallet rejects and no call reaches the contract
\* (the user is not signed in, or does not approve the transaction).
callMethod_rejected ==
    /\ fe.onsubmit = "awaiting"
    /\ fe' = [fe EXCEPT !.onsubmit = "rejected"]
    /\ UNCHANGED <<initialized, beneficiary, beneficiaryName, description, donations,
                   counter, hist, pending, last>>

\* form.onsubmit after its await: on a resolved promise the fieldset is
\* enabled again and the handler returns; on a rejected one the catch block
\* alerts and throws, so the last statement is not reached.
onsubmit_resume ==
    /\ fe.onsubmit \in {"resolved", "rejected"}
    /\ fe' = IF fe.onsubmit = "resolved"
             THEN [fe EXCEPT !.onsubmit = "returned", !.fieldset.disabled = FALSE]
             ELSE [fe EXCEPT !.onsubmit = "thrown"]
    /\ UNCHANGED <<initialized, beneficiary, beneficiaryName, description, donations,
                   counter, hist, pending, last>>

Form_submit == \E donation \in FormValues : onsubmit_submit(donation)

InitForm == InitSettle

NextForm ==
    \/ Form_submit
    \/ callMethod_donate
    \/ callMethod_rejected
    \/ onsubmit_resume

SpecForm == InitForm /\ [][NextForm]_vars

\* ------------------------------------------------------------------ claims

LastPromise == last.promises[1]

\* C1: in every reachable state get_total_donated is the sum of the ledger's
\* values (summed as the earlier draft does, key by key) and is the running
\* counter that grows by the full deposit of every successful donate and is
\* zeroed by every reset.
C1_TotalDonated ==
    /\ get_total_donated = toString(counter)
    /\ get_total_donated = get_total_donated_draft

\* C1 witness: two donors are recorded, the last call was a repeat donation.
C1_Witness ==
    /\ number_of_donors = 2
    /\ last.op = "donate" /\ last.ok /\ last.prior > 0
    /\ counter > 2 * STORAGE_COST + 2

\* C2: a donate from a caller with no recorded amount fails when the deposit
\* is at most STORAGE_COST; otherwise it succeeds, asks for one transfer of
\* deposit - STORAGE_COST to the beneficiary and records the full deposit.
C2_FirstDonation ==
    (initialized /\ last.op = "donate" /\ last.prior = 0) =>
        /\ last.ok <=> last.deposit > STORAGE_COST
        /\ ~last.ok => last.promises = NoPromise
        /\ last.ok =>
            /\ last.promises = <<[to |-> beneficiary,
                                  amount |-> last.deposit - STORAGE_COST]>>
            /\ UnorderedMap_get(donations, last.caller, 0) = last.deposit
            /\ get_donation_for_account(last.caller).total_amount = toString(last.deposit)

\* C2 witness: a first donation of STORAGE_COST + 1 has succeeded.
C2_Witness ==
    /\ initialized /\ last.op = "donate" /\ last.prior = 0 /\ last.ok
    /\ last.deposit = STORAGE_COST + 1
    /\ LastPromise.amount = 1

Privileged == {"change_beneficiary", "reset_donations"}

\* C4: a call that fails leaves initialized, the three beneficiary fields and
\* the ledger as they were and requests no transfer.
C4_FailureAtomic ==
    [][~last'.ok =>
          /\ UNCHANGED <<initialized, beneficiary, beneficiaryName, description, donations>>
          /\ last'.promises = NoPromise]_vars

\* C4 witness: a donate has failed on a contract with recorded donors.
C4_Witness ==
    /\ initialized /\ last.op = "donate" /\ ~last.ok
    /\ number_of_donors > 0

\* C5 (as claimed): a donate with a deposit of 0 fails and requests no
\* transfer, whoever the caller is.
C5_ZeroDepositFails ==
    (initialized /\ last.op = "donate" /\ last.deposit = 0) =>
        ~last.ok /\ last.promises = NoPromise

\* C6: change_beneficiary and reset_donations succeed only for the contract's
\* own account; from any other caller they fail as Unauthorized and leave the
\* beneficiary fields and the ledger as they were.
C6_PrivilegedCalls ==
    [][last'.op \in Privileged =>
          /\ last'.ok => last'.caller = ContractAccount
          /\ (initialized /\ last'.caller # ContractAccount) =>
                /\ ~last'.ok /\ last'.err = "Unauthorized"
                /\ UNCHANGED <<beneficiary, beneficiaryName, description, donations>>]_vars

\* C6 witness: a reset_donations from another account was refused while
\* donors were recorded.
C6_Witness ==
    /\ initialized /\ last.op = "reset_donations" /\ last.caller # ContractAccount
    /\ ~last.ok /\ last.err = "Unauthorized"
    /\ number_of_donors > 0

\* C7: once initialized the contract stays initialized, and every init call
\* made then fails as AlreadyInitialized and changes neither the beneficiary
\* fields nor the ledger.
C7_InitOnce ==
    [][initialized =>
          /\ initialized'
          /\ last'.op = "init" =>
                /\ ~last'.ok /\ last'.err = "AlreadyInitialized"
                /\ UNCHANGED <<beneficiary, beneficiaryName, description, donations>>]_vars

\* C7 witness: the contract's own account called init again, with other
\* arguments, after donations were recorded.
C7_Witness ==
    /\ initialized /\ last.op = "init" /\ last.caller = ContractAccount /\ ~last.ok
    /\ last.args # <<beneficiary, beneficiaryName, description>>
    /\ number_of_donors > 0

\* C8: before init, every donate, change_beneficiary and reset_donations
\* fails as NotInitialized, writes no ledger entry and requests no transfer.
C8_RequireInit ==
    [][(~initialized /\ last'.op \in Privileged \cup {"donate"}) =>
          /\ ~last'.ok /\ last'.err = "NotInitialized"
          /\ donations = UnorderedMap_new /\ donations' = UnorderedMap_new
          /\ last'.promises = NoPromise]_vars

\* C8 witness: a donate large enough for a first donation was refused before init.
C8_Witness ==
    /\ ~initialized /\ last.op = "donate" /\ ~last.ok
    /\ last.deposit > STORAGE_COST

\* C9: right after a successful reset_donations the ledger is empty and the
\* total is "0"; a donate that follows from a donor the reset removed is
\* handled as a first donation.
C9_AfterReset ==
    /\ []((last.op = "reset_donations" /\ last.ok) =>
            /\ number_of_donors = 0
            /\ get_total_donated = "0"
            /\ \A a \in Accounts : get_donation_for_account(a).total_amount = "0")
    /\ [][(last.op = "reset_donations" /\ last.ok /\ last'.op = "donate"
           /\ last'.caller \in last.cleared) =>
            /\ last'.prior = 0
            /\ last'.ok <=> last'.deposit > STORAGE_COST
            /\ last'.ok =>
                /\ last'.promises = <<[to |-> beneficiary,
                                       amount |-> last'.deposit - STORAGE_COST]>>
                /\ UnorderedMap_get(donations', last'.caller, 0) = last'.deposit
                /\ last'.ret = toString(last'.deposit)]_vars

\* C9 witness: a donor removed by the reset has donated again, successfully.
C9_Witness ==
    /\ last.op = "donate" /\ last.recordedBefore /\ last.ok
    /\ LastPromise.amount = last.deposit - STORAGE_COST

PageExpected(from_index, limit) ==
    LET count == Min(limit, Max(0, number_of_donors - from_index))
    IN  [i \in 1..count |->
            [account_id |-> donations.keys[from_index + i],
             total_amount |-> toString(donations.values[from_index + i])]]

\* C11: for every from_index and limit, get_donations (either draft) returns
\* min(limit, max(0, donor_count - from_index)) entries, the donors from
\* position from_index of the insertion order with their current amounts
\* (none when from_index is beyond the donors); a first donation appends the
\* donor and a repeat donation leaves every position as it was.
C11_Pagination ==
    /\ [](\A from_index \in 0..MaxIndex, limit \in 0..MaxIndex :
            /\ get_donations(from_index, limit) = PageExpected(from_index, limit)
            /\ get_donations_draft(from_index, limit) = PageExpected(from_index, limit))
    /\ [][(last'.op = "donate" /\ last'.ok) =>
            donations'.keys = IF last'.prior > 0 THEN donations.keys
                              ELSE Append(donations.keys, last'.caller)]_vars

\* C11 witness: with three donors recorded the first of them has donated
\* again; a page inside the ledger and one beyond it are asked for.
C11_Witness ==
    /\ number_of_donors = 3
    /\ last.op = "donate" /\ last.ok /\ last.prior > 0
    /\ last.caller = donations.keys[1]
    /\ get_donations(0, 1)[1].total_amount = last.ret
    /\ Len(get_donations(1, 4)) = 2
    /\ get_donations(4, 2) = <<>>

\* The position (1-based) of a returned donor in the ledger's insertion order.
RankPosition(donation) == IndexOf(donations.keys, donation.account_id)

\* The recorded amount of a returned donor.
RankAmount(donation) == donations.values[RankPosition(donation)]

\* C12 (as claimed): get_top_five_donors returns min(5, donor_count) donors,
\* in descending order of their exact recorded amounts, donors of equal
\* amounts in insertion order, and no donor left out has recorded more than a
\* donor returned.
C12_TopFiveExact ==
    last.op = "get_top_five_donors" =>
        LET r == last.ret
        IN  /\ Len(r) = Min(TopCount, number_of_donors)
            /\ \A i \in 1..Len(r) : r[i] = get_donation_for_account_wide(r[i].account_id)
            /\ \A i, j \in 1..Len(r) :
                  i < j =>
                      /\ WideCompare(RankAmount(r[i]), RankAmount(r[j])) >= 0
                      /\ RankAmount(r[i]) = RankAmount(r[j]) =>
                            RankPosition(r[i]) < RankPosition(r[j])
            /\ \A k \in 1..number_of_donors :
                  (\A i \in 1..Len(r) : r[i].account_id # donations.keys[k]) =>
                      \A i \in 1..Len(r) :
                          WideCompare(donations.values[k], RankAmount(r[i])) <= 0

\* C13 (as claimed): a call of get_donation_statistics succeeds and returns the
\* number of ledger entries, the sum of the ledger's values, and the floor of
\* their quotient as the average, "0" when there is no donor.
C13_Statistics ==
    last.op = "get_donation_statistics" =>
        /\ last.ok
        /\ last.ret =
             [total_donors |-> number_of_donors,
              total_donated |-> toString(SumSeq(donations.values)),
              average_donation |->
                  IF number_of_donors = 0 THEN "0"
                  ELSE toString(SumSeq(donations.values) \div number_of_donors)]

\* C14 (as claimed): the entry a new donor's first successful donation
\* creates holds the first deposit less STORAGE_COST.
C14_FirstEntryNet ==
    (last.op = "donate" /\ last.ok /\ last.prior = 0) =>
        UnorderedMap_get(donations, last.caller, 0) = last.deposit - STORAGE_COST

\* C14 (amended): a successful donate of a donor with no entry appends an
\* entry holding the full deposit; one of a donor with an entry adds the
\* deposit to it; no other entry changes.
C14_EntryAmount ==
    [][(last'.op = "donate" /\ last'.ok) =>
         LET donor == last'.caller
             entry == UnorderedMap_get(donations', donor, 0)
         IN  /\ UnorderedMap_has(donations', donor)
             /\ IF UnorderedMap_has(donations, donor)
                THEN /\ entry = UnorderedMap_get(donations, donor, 0) + last'.deposit
                     /\ donations'.keys = donations.keys
                ELSE /\ entry = last'.deposit
                     /\ donations'.keys = Append(donations.keys, donor)
             /\ \A other \in Range(donations.keys) \ {donor} :
                    UnorderedMap_get(donations', other, 0)
                        = UnorderedMap_get(donations, other, 0)]_vars

\* C14 witness: a donor whose entry was created by a first deposit has
\* donated again, next to another donor's entry.
C14_Witness ==
    /\ last.op = "donate" /\ last.ok
    /\ last.prior > STORAGE_COST /\ last.deposit > 0
    /\ UnorderedMap_get(donations, last.caller, 0) = last.prior + last.deposit
    /\ UnorderedMap_length(donations) = 2

C16_ReturnedTotal ==
    /\ (last.op = "donate" /\ last.ok) =>
          /\ last.ret = toString(last.prior + last.deposit)
          /\ last.ret = get_donation_for_account(last.caller).total_amount
          /\ last.ret = toString(hist.attached[last.caller])
    /\ \A a \in Accounts :
          get_donation_for_account(a).total_amount = toString(hist.attached[a])

\* C16 witness: a donor's second donation since a reset returned the sum of
\* the two, while another account has donated as well.
C16_Witness ==
    /\ last.op = "donate" /\ last.ok
    /\ last.prior > 0 /\ last.deposit > 0
    /\ last.ret = toString(last.prior + last.deposit)
    /\ hist.attached[last.caller] = last.prior + last.deposit
    /\ \E a \in Accounts \ {last.caller} : hist.attached[a] > 0

\* C17: a successful donate ends with its transfer still in flight and the
\* donation recorded; and whenever the host settles a transfer, with success
\* or with failure, before or after any later call, the ledger, the number
\* of donors, the total and every account's amount stay as they were.
C17_FireAndForget ==
    [][/\ (last'.op = "donate" /\ last'.ok) =>
            /\ pending' = pending \o Requested(last')
            /\ Len(pending') = Len(pending) + 1
            /\ UnorderedMap_get(donations', last'.caller, 0)
                   = last'.prior + last'.deposit
       /\ last'.op = "settle" =>
            /\ donations' = donations
            /\ number_of_donors' = number_of_donors
            /\ get_total_donated' = get_total_donated
            /\ \A a \in Accounts :
                  get_donation_for_account(a)' = get_donation_for_account(a)]_vars

\* C17 witness: the transfer of a donor's first donation has failed after the
\* donor donated again; both donations stay recorded and the later transfer
\* is still in flight.
C17_Witness ==
    /\ last.op = "settle" /\ ~last.ok
    /\ last.deposit = 1
    /\ UnorderedMap_get(donations, last.caller, 0) = STORAGE_COST + 2
    /\ hist.attached[last.caller] = STORAGE_COST + 2
    /\ Len(pending) = 1 /\ pending[1].donor = last.caller

\* C18: every ledger value is above STORAGE_COST, so an account is a key of
\* the ledger exactly when its recorded amount is not zero; no key occurs
\* twice; and number_of_donors is the number of distinct callers with a
\* successful donate since the last reset.
C18_LedgerKeys ==
    /\ \A i \in 1..Len(donations.values) : donations.values[i] > STORAGE_COST
    /\ \A a \in Accounts :
          UnorderedMap_has(donations, a) <=> UnorderedMap_get(donations, a, 0) # 0
    /\ Cardinality(Range(donations.keys)) = Len(donations.keys)
    /\ Range(donations.keys) = hist.donors
    /\ number_of_donors = Cardinality(hist.donors)

\* C18 witness: two callers have donated, one of them twice, and a third
\* account has no entry.
C18_Witness ==
    /\ number_of_donors = 2
    /\ last.op = "donate" /\ last.ok /\ last.prior > 0
    /\ \E a \in Accounts : ~UnorderedMap_has(donations, a)

\* C19: since the last reset (or init), the amounts requested for transfer
\* add up to get_total_donated less STORAGE_COST for every donor recorded,
\* and no transfer requested is of a negative amount.
C19_Conservation ==
    /\ toString(hist.transferred + STORAGE_COST * number_of_donors) = get_total_donated
    /\ hist.transferred = SumSeq(donations.values) - STORAGE_COST * number_of_donors
    /\ \A i \in 1..Len(last.promises) : last.promises[i].amount >= 0

\* C19 witness: two donors, one with a repeat donation, have had transfers
\* requested; the contract keeps twice STORAGE_COST.
C19_Witness ==
    /\ number_of_donors = 2
    /\ last.op = "donate" /\ last.ok /\ last.prior > 0 /\ last.deposit > 0
    /\ hist.transferred > 0
    /\ SumSeq(donations.values) - hist.transferred = 2 * STORAGE_COST

\* The donors latestDonations is to return: the last LatestCount keys of the
\* ledger, or all of them when there are fewer, the most recent first.
LatestExpected ==
    LET n == UnorderedMap_length(donations)
    IN  [i \in 1..Min(LatestCount, n) |-> donations.keys[n - i + 1]]

\* C20 (as claimed): when latestDonations is done, the donors it returns are
\* the last ten of the ledger's insertion order (all when there are fewer),
\* the most recent first, also when a new donor donated between its two
\* view calls.
C20_LatestTen ==
    fe.pc = "done" =>
        [i \in 1..Len(fe.donations) |-> fe.donations[i].account_id] = LatestExpected

\* C21 (as claimed): the fieldset is disabled from the submission of the form
\* until the handler has dealt with the outcome of contract.donate, and is
\* enabled once the handler has ended, whether donate succeeded or threw.
C21_FieldsetReenabled ==
    /\ fe.onsubmit \in {"awaiting", "resolved", "rejected"} => fe.fieldset.disabled
    /\ fe.onsubmit \in {"returned", "thrown"} => ~fe.fieldset.disabled

====
